---------------------------- MODULE Spec2Model ----------------------------
(***************************************************************************)
(* Pattern Matching Visualizer (src/src/App.jsx).                          *)
(*                                                                         *)
(* The App component keeps text, pattern, algorithm, steps, pos,           *)
(* generated, matches and compareGrid as React state.  Run materialises    *)
(* the whole trace of KMP or Boyer-Moore with buildKMPSteps/buildBMSteps;  *)
(* Next/Prev/Reset and a click on a grid cell move pos through it.         *)
(*                                                                         *)
(* An onChange handler changes its input only.  The component is then      *)
(* rendered with the new input beside the trace of the previous inputs     *)
(* and, once that render is committed, the effect on [text, pattern,       *)
(* algorithm] resets the trace (effectPending holds in between; the effect *)
(* runs before any further event is handled).  A render that throws        *)
(* unmounts the component (mounted becomes FALSE) and nothing can happen   *)
(* afterwards.  hung holds when a generator was still looping after        *)
(* MaxIter turns; lastEvent names the last handler and the exit it took.   *)
(*                                                                         *)
(* Conventions.  A JavaScript string is a sequence of one-character        *)
(* strings and CharAt reads it 0-indexed, giving "undefined" outside its   *)
(* bounds.  A JavaScript array of numbers (lps, shift, borderPos) is a     *)
(* function on 0..length-1.  The array of steps is a sequence, so the step *)
(* at JavaScript index k is steps[k+1].  A step is a record holding the    *)
(* fields the source gives it; its action string is kept as the field      *)
(* kind (which template produced it) next to the numbers the template      *)
(* interpolates.                                                           *)
(***************************************************************************)
EXTENDS Integers, Sequences, FiniteSets, TLC

VARIABLES text, pattern, algorithm, steps, pos, generated, matches,
          compareGrid, mounted, effectPending, hung, lastEvent

vars == <<text, pattern, algorithm, steps, pos, generated, matches,
          compareGrid, mounted, effectPending, hung, lastEvent>>

(* ------------------------------ bounds -------------------------------- *)

\* longest text / pattern a keystroke may produce
MaxTextLen == 4
MaxPatLen == 3
\* longest text / pattern typed when only Run is exercised (SpecEngine)
MaxEngineTextLen == 5
MaxEnginePatLen == 5
\* longest pattern typed when only the tables are rendered (SpecTables)
MaxTablePatLen == 6
\* loop iterations after which a generator is taken not to return
MaxIter == 64

\* characters a keystroke may append
Alphabet == {"A", "B"}

(* --------------------------- JavaScript values ------------------------ *)

Min(a, b) == IF a < b THEN a ELSE b
Max(a, b) == IF a > b THEN a ELSE b

\* s[i] of a string: the character, or undefined outside 0..length-1
CharAt(s, i) == IF i >= 0 /\ i < Len(s) THEN s[i + 1] ELSE "undefined"

\* a[k] ?? d of an array of numbers
Nullish(a, k, d) == IF k \in DOMAIN a THEN a[k] ELSE d

\* Array(n).fill(v)
ArrayFill(n, v) == [k \in 0..(n - 1) |-> v]

\* Index k is outside a string or array of n elements: the read gives undefined.
OutOfBounds(k, n) == k < 0 \/ k >= n

(* ------------------------------ computeLPS ---------------------------- *)

\* Mutant: on a mismatch the border length restarts from 0.
LPSFallbackToZero(lps, len) == 0

\* len = lps[len - 1]: the next shorter border to try after a mismatch.
LPSFallback(lps, len) == lps[len - 1]

\* One turn of the while loop of computeLPS on the locals lps, log, len, i;
\* oob records that a read of p or lps so far was outside the array.
LPSBody(p, st) ==
    LET i == st.i
        len == st.len
        log1 == Append(st.log, <<"Compare", i, len>>)
        oob1 == st.oob \/ OutOfBounds(i, Len(p)) \/ OutOfBounds(len, Len(p))
    IN IF CharAt(p, i) = CharAt(p, len)
       THEN [lps |-> [st.lps EXCEPT ![i] = len + 1],
             log |-> Append(log1, <<"Match", i, len + 1>>),
             len |-> len + 1,
             i |-> i + 1,
             oob |-> oob1]
       ELSE IF len # 0
            THEN [lps |-> st.lps,
                  log |-> Append(log1, <<"Fallback", LPSFallback(st.lps, len)>>),
                  len |-> LPSFallback(st.lps, len),
                  i |-> i,
                  oob |-> oob1 \/ OutOfBounds(len - 1, Len(p))]
            ELSE [lps |-> [st.lps EXCEPT ![i] = 0],
                  log |-> Append(log1, <<"Set", i, 0>>),
                  len |-> len,
                  i |-> i + 1,
                  oob |-> oob1]

RECURSIVE LPSLoop(_, _)
LPSLoop(p, st) ==
    IF st.i < Len(p) THEN LPSLoop(p, LPSBody(p, st)) ELSE st

computeLPS(p) ==
    LET st == LPSLoop(p, [lps |-> ArrayFill(Len(p), 0), log |-> <<>>,
                          len |-> 0, i |-> 1, oob |-> FALSE])
    IN [lps |-> st.lps, log |-> st.log, oob |-> st.oob]

(* ----------------------------- buildKMPSteps -------------------------- *)

\* Mutant: the window of a comparison is taken to start at the text cursor.
KMPCompareStepWindowAtCursor(text_, pattern_, i, j, match) ==
    [kind |-> "Compare",
     windowStart |-> i,
     windowEnd |-> i + Len(pattern_) - 1,
     compareIndex |-> i,
     lastComparison |-> [textIndex |-> i, patternIndex |-> j, match |-> match],
     lastMatch |-> match]

\* A variant of KMPCompareStep that records the window start as the text
\* index compared.
KMPCompareStepAtWindowStart(text_, pattern_, i, j, match) ==
    [kind |-> "Compare",
     windowStart |-> i - j,
     windowEnd |-> i - j + Len(pattern_) - 1,
     compareIndex |-> i - j,
     lastComparison |-> [textIndex |-> i - j, patternIndex |-> j, match |-> match],
     lastMatch |-> match]

\* A variant of KMPCompareStep that records the pattern index resumed from
\* the window start, which is always 0, in place of the pattern cursor.
KMPCompareStepPatternIndexZero(text_, pattern_, i, j, match) ==
    [kind |-> "Compare",
     windowStart |-> i - j,
     windowEnd |-> i - j + Len(pattern_) - 1,
     compareIndex |-> i,
     lastComparison |-> [textIndex |-> i, patternIndex |-> 0, match |-> match],
     lastMatch |-> match]

KMPCompareStep(text_, pattern_, i, j, match) ==
    [kind |-> "Compare",
     windowStart |-> i - j,
     windowEnd |-> i - j + Len(pattern_) - 1,
     compareIndex |-> i,
     lastComparison |-> [textIndex |-> i, patternIndex |-> j, match |-> match],
     lastMatch |-> match]

\* A variant of MatchFoundStep whose window starts where the occurrence ends.
MatchFoundStepAtEnd(start, m) ==
    [kind |-> "MatchFound", windowStart |-> start + m - 1,
     windowEnd |-> start + m - 1, start |-> start + m - 1]

MatchFoundStep(start, m) ==
    [kind |-> "MatchFound", windowStart |-> start, windowEnd |-> start + m - 1,
     start |-> start]

FallbackStep(oldj, j, i, m) ==
    [kind |-> "Fallback", oldj |-> oldj, j |-> j,
     windowStart |-> i - j, windowEnd |-> i - j + m - 1]

IncrementStep == [kind |-> "Increment"]

CompleteStep == [kind |-> "Complete"]

\* A variant of KMPFallback that restarts the pattern from its first character.
KMPFallbackRestart(lps, j) == 0

\* lps[j - 1] ?? 0: the pattern index resumed after j characters matched.
KMPFallback(lps, j) == Nullish(lps, j - 1, 0)

\* One turn of the while loop of buildKMPSteps on the locals i, j, steps, matches;
\* oob records that a read of text, pattern or lps so far was outside the array.
KMPBody(text_, pattern_, lps, st) ==
    LET i == st.i
        j == st.j
        m == Len(pattern_)
        match == CharAt(text_, i) = CharAt(pattern_, j)
        steps1 == Append(st.steps, KMPCompareStep(text_, pattern_, i, j, match))
        oob1 == st.oob \/ OutOfBounds(i, Len(text_)) \/ OutOfBounds(j, m)
    IN IF match
       THEN IF j + 1 = m
            THEN [i |-> i + 1,
                  j |-> KMPFallback(lps, j + 1),
                  steps |-> Append(steps1, MatchFoundStep((i + 1) - (j + 1), m)),
                  matches |-> Append(st.matches, (i + 1) - (j + 1)),
                  oob |-> oob1 \/ (j + 1 - 1) \notin DOMAIN lps]
            ELSE [i |-> i + 1, j |-> j + 1, steps |-> steps1, matches |-> st.matches,
                  oob |-> oob1]
       ELSE IF j # 0
            THEN LET newj == KMPFallback(lps, j)
                 IN [i |-> i, j |-> newj,
                     steps |-> Append(steps1, FallbackStep(j, newj, i, m)),
                     matches |-> st.matches,
                     oob |-> oob1 \/ (j - 1) \notin DOMAIN lps]
            ELSE [i |-> i + 1, j |-> j,
                  steps |-> Append(steps1, IncrementStep),
                  matches |-> st.matches,
                  oob |-> oob1]

\* After the loop: the closing step is pushed and steps, matches are returned.
KMPFinish(st) ==
    [steps |-> Append(st.steps, CompleteStep), matches |-> st.matches,
     returned |-> TRUE, oob |-> st.oob]

\* The while loop; returned is FALSE when it is still running after fuel turns.
RECURSIVE KMPLoop(_, _, _, _, _)
KMPLoop(text_, pattern_, lps, st, fuel) ==
    IF st.i < Len(text_)
    THEN IF fuel = 0
         THEN [steps |-> st.steps, matches |-> st.matches, returned |-> FALSE,
               oob |-> st.oob]
         ELSE KMPLoop(text_, pattern_, lps, KMPBody(text_, pattern_, lps, st), fuel - 1)
    ELSE KMPFinish(st)

buildKMPSteps(text_, pattern_) ==
    LET table == computeLPS(pattern_)
    IN KMPLoop(text_, pattern_, table.lps,
               [i |-> 0, j |-> 0, steps |-> <<>>, matches |-> <<>>,
                oob |-> table.oob], MaxIter)

(* ------------------------ Boyer-Moore preprocessing ------------------- *)

\* A variant of BadCharSet that keeps an entry already present.
BadCharSetOnce(bad, ch, i) ==
    [c \in DOMAIN bad \cup {ch} |-> IF c \in DOMAIN bad THEN bad[c] ELSE i]

\* bad[ch] = i: the entry of ch is created or overwritten.
BadCharSet(bad, ch, i) ==
    [c \in DOMAIN bad \cup {ch} |-> IF c = ch THEN i ELSE bad[c]]

\* The for loop of computeBadChar; it overwrites, so the entry left for a
\* character is its last index.
RECURSIVE BadCharLoop(_, _, _)
BadCharLoop(p, bad, i) ==
    IF i < Len(p)
    THEN BadCharLoop(p, BadCharSet(bad, CharAt(p, i), i), i + 1)
    ELSE bad

computeBadChar(p) == BadCharLoop(p, [c \in {} |-> 0], 0)

\* Mutant: an entry already set is overwritten.
GSSetShiftAlways(shift, j, i, m) == [shift EXCEPT ![j] = j - i]

\* if (shift[j] === m) shift[j] = j - i
GSSetShift(shift, j, i, m) ==
    IF shift[j] = m THEN [shift EXCEPT ![j] = j - i] ELSE shift

\* The inner while of the first pass of computeGoodSuffix, on shift and j;
\* oob records that a read of p, shift or borderPos so far was outside the array.
RECURSIVE GSInner(_, _, _)
GSInner(p, i, st) ==
    LET m == Len(p)
        j == st.j
        oob1 == st.oob \/ (j <= m /\ (OutOfBounds(i - 1, m) \/ OutOfBounds(j - 1, m)))
    IN IF j <= m /\ CharAt(p, i - 1) # CharAt(p, j - 1)
       THEN GSInner(p, i,
                    [st EXCEPT !.shift = GSSetShift(st.shift, j, i, m),
                               !.j = st.borderPos[j],
                               !.oob = oob1 \/ j \notin DOMAIN st.shift
                                            \/ j \notin DOMAIN st.borderPos])
       ELSE [st EXCEPT !.oob = oob1]

\* The outer while of the first pass, on shift, borderPos, i and j.
RECURSIVE GSFirstPass(_, _)
GSFirstPass(p, st) ==
    IF st.i > 0
    THEN LET in == GSInner(p, st.i, st)
         IN GSFirstPass(p, [shift |-> in.shift,
                            borderPos |-> [in.borderPos EXCEPT ![st.i - 1] = in.j - 1],
                            i |-> st.i - 1,
                            j |-> in.j - 1,
                            oob |-> in.oob])
    ELSE st

\* The for loop of the second pass, on shift and j.  Its reads are shift[i]
\* and borderPos[i] at the loop index i <= m of arrays of m + 1 entries.
RECURSIVE GSSecondPass(_, _, _, _, _)
GSSecondPass(m, borderPos, shift, j, i) ==
    IF i <= m
    THEN LET shift1 == IF shift[i] = m THEN [shift EXCEPT ![i] = j] ELSE shift
             j1 == IF i = j THEN borderPos[j] ELSE j
         IN GSSecondPass(m, borderPos, shift1, j1, i + 1)
    ELSE shift

\* Mutant: the table is filled with 0, the unset mark of the textbook version,
\* while the passes go on testing for m.
GSInitShiftZero(m) == ArrayFill(m + 1, 0)

\* const shift = Array(m + 1).fill(m): m marks an entry not yet set.
GSInitShift(m) == ArrayFill(m + 1, m)

\* The first pass of computeGoodSuffix from the freshly filled arrays.
GSFirstPassResult(p) ==
    LET m == Len(p)
    IN GSFirstPass(p, [shift |-> GSInitShift(m),
                       borderPos |-> [ArrayFill(m + 1, 0) EXCEPT ![m] = m + 1],
                       i |-> m,
                       j |-> m + 1,
                       oob |-> FALSE])

computeGoodSuffix(p) ==
    LET m == Len(p)
        first == GSFirstPassResult(p)
        shift == GSSecondPass(m, first.borderPos, first.shift, first.borderPos[0], 0)
    IN [k \in 0..m |-> shift[k]]

(* ------------------------------ buildBMSteps -------------------------- *)

AlignStep(s, m) == [kind |-> "Align", windowStart |-> s, windowEnd |-> s + m - 1]

\* A variant of BMCompareStep that records the pattern index as the text
\* index compared, leaving out the window start.
BMCompareStepPatternRelative(s, j, m, match) ==
    [kind |-> "Compare",
     windowStart |-> s,
     windowEnd |-> s + m - 1,
     compareIndex |-> j,
     lastComparison |-> [textIndex |-> j, patternIndex |-> j, match |-> match],
     lastMatch |-> match]

BMCompareStep(s, j, m, match) ==
    [kind |-> "Compare",
     windowStart |-> s,
     windowEnd |-> s + m - 1,
     compareIndex |-> s + j,
     lastComparison |-> [textIndex |-> s + j, patternIndex |-> j, match |-> match],
     lastMatch |-> match]

ShiftAfterMatchStep(s, shift) ==
    [kind |-> "ShiftDecision", branch |-> "match", shift |-> shift,
     windowStart |-> s + shift]

ShiftAfterMismatchStep(s, bcShift, gsShift, shift) ==
    [kind |-> "ShiftDecision", branch |-> "mismatch", bcShift |-> bcShift,
     gsShift |-> gsShift, shift |-> shift, windowStart |-> s + shift]

\* The inner while of buildBMSteps: one Compare step per matching character.
RECURSIVE BMScan(_, _, _, _, _)
BMScan(text_, pattern_, s, j, steps_) ==
    IF j >= 0 /\ CharAt(pattern_, j) = CharAt(text_, s + j)
    THEN BMScan(text_, pattern_, s, j - 1,
                Append(steps_, BMCompareStep(s, j, Len(pattern_), TRUE)))
    ELSE [j |-> j, steps |-> steps_]

\* Mutant: after a match the window is moved past the whole occurrence.
BMMatchShiftWholePattern(good) == Cardinality(DOMAIN good) - 1

\* The shift of the branch taken after a full match.
BMMatchShift(good) == Nullish(good, 0, 1)

\* A variant of BMMismatchShift that shifts by the raw bad-character distance
\* j - lastOcc alone, which is zero or negative when the character occurs to
\* the right of j in the pattern.
BMMismatchShiftRawBadChar(text_, pattern_, bad, good, s, j) ==
    LET badChar == CharAt(text_, s + j)
        lastOcc == IF badChar \in DOMAIN bad THEN bad[badChar] ELSE -1
        gsShift == Nullish(good, j + 1, Len(pattern_))
    IN [bcShift |-> j - lastOcc, gsShift |-> gsShift, shift |-> j - lastOcc]

\* The shifts of the mismatch branch at pattern index j of the window at s.
BMMismatchShift(text_, pattern_, bad, good, s, j) ==
    LET badChar == CharAt(text_, s + j)
        lastOcc == IF badChar \in DOMAIN bad THEN bad[badChar] ELSE -1
        bcShift == Max(1, j - lastOcc)
        gsShift == Nullish(good, j + 1, Len(pattern_))
    IN [bcShift |-> bcShift, gsShift |-> gsShift, shift |-> Max(bcShift, gsShift)]

\* One turn of the outer while of buildBMSteps on the locals s, steps, matches;
\* oob records that a read of text, pattern or good so far was outside the array.
BMBody(text_, pattern_, bad, good, st) ==
    LET s == st.s
        m == Len(pattern_)
        scan == BMScan(text_, pattern_, s, m - 1, Append(st.steps, AlignStep(s, m)))
        j == scan.j
        \* the inner while read pattern[jj] and text[s + jj] for every jj >= 0
        \* from m - 1 down to the index it stopped at
        oob1 == st.oob \/ \E jj \in Max(j, 0)..(m - 1) :
                              OutOfBounds(jj, m) \/ OutOfBounds(s + jj, Len(text_))
    IN IF j < 0
       THEN LET shift == BMMatchShift(good)
            IN [s |-> s + shift,
                steps |-> scan.steps \o <<MatchFoundStep(s, m),
                                           ShiftAfterMatchStep(s, shift)>>,
                matches |-> Append(st.matches, s),
                oob |-> oob1 \/ 0 \notin DOMAIN good]
       ELSE LET d == BMMismatchShift(text_, pattern_, bad, good, s, j)
            IN [s |-> s + d.shift,
                steps |-> scan.steps \o <<BMCompareStep(s, j, m, FALSE),
                                           ShiftAfterMismatchStep(s, d.bcShift,
                                                                  d.gsShift, d.shift)>>,
                matches |-> st.matches,
                oob |-> oob1 \/ OutOfBounds(s + j, Len(text_))
                             \/ (j + 1) \notin DOMAIN good]

\* Mutant: the closing step is not pushed.
BMFinishNoComplete(st) ==
    [steps |-> st.steps, matches |-> st.matches, returned |-> TRUE, oob |-> st.oob]

\* After the loop: the closing step is pushed and steps, matches are returned.
BMFinish(st) ==
    [steps |-> Append(st.steps, CompleteStep), matches |-> st.matches,
     returned |-> TRUE, oob |-> st.oob]

\* A variant of BMWindowFits that slides the window to the end of the text.
BMWindowStartsInText(text_, pattern_, s) == s <= Len(text_) - 1

\* The condition of the outer while: the window at s ends inside the text.
BMWindowFits(text_, pattern_, s) == s <= Len(text_) - Len(pattern_)

\* The outer while; returned is FALSE when it is still running after fuel turns.
RECURSIVE BMLoop(_, _, _, _, _, _)
BMLoop(text_, pattern_, bad, good, st, fuel) ==
    IF BMWindowFits(text_, pattern_, st.s)
    THEN IF fuel = 0
         THEN [steps |-> st.steps, matches |-> st.matches, returned |-> FALSE,
               oob |-> st.oob]
         ELSE BMLoop(text_, pattern_, bad, good,
                     BMBody(text_, pattern_, bad, good, st), fuel - 1)
    ELSE BMFinish(st)

buildBMSteps(text_, pattern_) ==
    BMLoop(text_, pattern_, computeBadChar(pattern_), computeGoodSuffix(pattern_),
           [s |-> 0, steps |-> <<>>, matches |-> <<>>,
            oob |-> GSFirstPassResult(pattern_).oob], MaxIter)

(* ------------------------------ App component ------------------------- *)

DefaultText ==
    <<"A", "B", "A", "B", "D", "A", "B", "A", "C", "D",
      "A", "B", "A", "B", "C", "A", "B", "A", "B">>

DefaultPattern == <<"A", "B", "A", "B", "C", "A", "B", "A", "B">>

\* The values an input field holding s can take next: one character typed at
\* the end (while s is shorter than max), the last character deleted, or, for
\* a field longer than max (the default text and pattern), the field cleared.
Edits(s, max) ==
    IF Len(s) > max
    THEN {<<>>}
    ELSE (IF Len(s) < max THEN {Append(s, c) : c \in Alphabet} ELSE {})
         \cup (IF Len(s) > 0 THEN {SubSeq(s, 1, Len(s) - 1)} ELSE {})

Init ==
    /\ text = DefaultText
    /\ pattern = DefaultPattern
    /\ algorithm = "KMP"
    /\ steps = <<>>
    /\ pos = 0
    /\ generated = FALSE
    /\ matches = <<>>
    /\ compareGrid = <<>>
    /\ mounted = TRUE
    /\ effectPending = FALSE
    /\ hung = FALSE
    /\ lastEvent = "mount"

\* The render of the comparison grid: with a grid stored, every row i of the
\* text reads compareGrid[i][j] for every column j of the pattern, and
\* compareGrid[i] is undefined for a row beyond the stored grid, so the read
\* throws a TypeError.
RenderThrows(text_, pattern_, compareGrid_) ==
    /\ Len(compareGrid_) # 0
    /\ Len(pattern_) > 0
    /\ Len(text_) > Len(compareGrid_)

\* What follows an onChange handler: the component is rendered with the new
\* input next to the steps, matches, compareGrid, pos and generated of the
\* previous inputs.  When the render throws nothing is committed, the reset
\* effect never runs and the component is unmounted; otherwise the render is
\* committed and the reset effect is left to run.
RenderAfterInputChange ==
    /\ IF RenderThrows(text', pattern', compareGrid)
       THEN /\ mounted' = FALSE
            /\ effectPending' = FALSE
            /\ lastEvent' = "render-threw"
       ELSE /\ mounted' = TRUE
            /\ effectPending' = TRUE
            /\ lastEvent' = "edit"
    /\ UNCHANGED <<steps, pos, generated, matches, compareGrid, hung>>

\* The effect run after a committed render in which text, pattern or
\* algorithm changed; it runs before any further event is handled.
ResetOnInputChange ==
    /\ mounted
    /\ effectPending
    /\ generated' = FALSE
    /\ steps' = <<>>
    /\ pos' = 0
    /\ matches' = <<>>
    /\ compareGrid' = <<>>
    /\ effectPending' = FALSE
    /\ UNCHANGED <<text, pattern, algorithm, mounted, hung, lastEvent>>

setText(v) ==
    /\ mounted /\ ~effectPending /\ ~hung
    /\ v # text
    /\ text' = v
    /\ UNCHANGED <<pattern, algorithm>>
    /\ RenderAfterInputChange

setPattern(v) ==
    /\ mounted /\ ~effectPending /\ ~hung
    /\ v # pattern
    /\ pattern' = v
    /\ UNCHANGED <<text, algorithm>>
    /\ RenderAfterInputChange

setAlgorithm(a) ==
    /\ mounted /\ ~effectPending /\ ~hung
    /\ a # algorithm
    /\ algorithm' = a
    /\ UNCHANGED <<text, pattern>>
    /\ RenderAfterInputChange

onNext ==
    /\ mounted /\ ~effectPending /\ ~hung
    /\ pos' = Min(pos + 1, Len(steps) - 1)
    /\ lastEvent' = "next"
    /\ UNCHANGED <<text, pattern, algorithm, steps, generated, matches,
                   compareGrid, mounted, effectPending, hung>>

onPrev ==
    /\ mounted /\ ~effectPending /\ ~hung
    /\ pos' = Max(pos - 1, 0)
    /\ lastEvent' = "prev"
    /\ UNCHANGED <<text, pattern, algorithm, steps, generated, matches,
                   compareGrid, mounted, effectPending, hung>>

onReset ==
    /\ mounted /\ ~effectPending /\ ~hung
    /\ pos' = 0
    /\ lastEvent' = "reset"
    /\ UNCHANGED <<text, pattern, algorithm, steps, generated, matches,
                   compareGrid, mounted, effectPending, hung>>

\* Mutant: the pattern index of the clicked cell is not compared.
StepComparesTextOnly(step, textIndex, patternIndex) ==
    /\ "lastComparison" \in DOMAIN step
    /\ step.lastComparison.textIndex = textIndex

\* The predicate of steps.findIndex in jumpToComparison.
StepCompares(step, textIndex, patternIndex) ==
    /\ "lastComparison" \in DOMAIN step
    /\ step.lastComparison.textIndex = textIndex
    /\ step.lastComparison.patternIndex = patternIndex

\* steps.findIndex(...): the first 0-based index whose step satisfies the
\* predicate, or -1.
findIndex(steps_, textIndex, patternIndex) ==
    LET hits == {k \in 0..(Len(steps_) - 1) :
                    StepCompares(steps_[k + 1], textIndex, patternIndex)}
    IN IF hits = {} THEN -1 ELSE CHOOSE k \in hits : \A h \in hits : k <= h

\* Mutant: setPos is called with whatever findIndex returned.
JumpTargetUnchecked(stepIndex, pos_) == stepIndex

\* What jumpToComparison does with the index found.
JumpTarget(stepIndex, pos_) == IF stepIndex # -1 THEN stepIndex ELSE pos_

\* The exit jumpToComparison takes and the value pos has after it.
JumpOutcome(steps_, pos_, textIndex, patternIndex) ==
    IF Len(steps_) = 0
    THEN [exit |-> "jump-nosteps", pos |-> pos_]
    ELSE LET stepIndex == findIndex(steps_, textIndex, patternIndex)
         IN [exit |-> IF stepIndex # -1 THEN "jump-found" ELSE "jump-absent",
             pos |-> JumpTarget(stepIndex, pos_)]

jumpToComparison(textIndex, patternIndex) ==
    /\ mounted /\ ~effectPending /\ ~hung
    /\ LET out == JumpOutcome(steps, pos, textIndex, patternIndex)
       IN /\ pos' = out.pos
          /\ lastEvent' = out.exit
    /\ UNCHANGED <<text, pattern, algorithm, steps, generated, matches,
                   compareGrid, mounted, effectPending, hung>>

\* The static grid onRun builds: grid[i][j] = (text[i] === pattern[j]).
CompareGrid(text_, pattern_) ==
    [i \in 1..Len(text_) |-> [j \in 1..Len(pattern_) |-> text_[i] = pattern_[j]]]

\* The generator onRun calls for the selected algorithm.
Generate(algorithm_, text_, pattern_) ==
    IF algorithm_ = "KMP" THEN buildKMPSteps(text_, pattern_)
                          ELSE buildBMSteps(text_, pattern_)

\* A variant of onRun without the guard on the empty pattern.
onRunUnguarded ==
    /\ mounted /\ ~effectPending /\ ~hung
    /\ LET r == Generate(algorithm, text, pattern)
       IN IF r.returned
          THEN /\ compareGrid' = CompareGrid(text, pattern)
               /\ steps' = r.steps
               /\ matches' = r.matches
               /\ pos' = 0
               /\ generated' = TRUE
               /\ lastEvent' = "run"
               /\ hung' = FALSE
          ELSE /\ hung' = TRUE
               /\ lastEvent' = "run"
               /\ UNCHANGED <<steps, matches, compareGrid, pos, generated>>
    /\ UNCHANGED <<text, pattern, algorithm, mounted, effectPending>>

onRun ==
    /\ mounted /\ ~effectPending /\ ~hung
    /\ IF Len(pattern) = 0
       THEN /\ lastEvent' = "run-rejected"
            /\ UNCHANGED <<steps, matches, compareGrid, pos, generated, hung>>
       ELSE LET r == Generate(algorithm, text, pattern)
            IN IF r.returned
               THEN /\ compareGrid' = CompareGrid(text, pattern)
                    /\ steps' = r.steps
                    /\ matches' = r.matches
                    /\ pos' = 0
                    /\ generated' = TRUE
                    /\ lastEvent' = "run"
                    /\ hung' = FALSE
               ELSE /\ hung' = TRUE
                    /\ lastEvent' = "run"
                    /\ UNCHANGED <<steps, matches, compareGrid, pos, generated>>
    /\ UNCHANGED <<text, pattern, algorithm, mounted, effectPending>>

\* The tables rendered below the controls: KMPTable or BMTable of the pattern.
\* steps[pos] || null: whether a step is selected, and the step selected.
hasCurrent == pos \in 0..(Len(steps) - 1)

current == steps[pos + 1]

\* current ? (current.windowStart ?? 0) : 0, the offset the pattern row is
\* drawn at.
windowStart ==
    IF hasCurrent
    THEN IF "windowStart" \in DOMAIN current THEN current.windowStart ELSE 0
    ELSE 0

KMPTable == computeLPS(pattern)

BMTable == [bad |-> computeBadChar(pattern), good |-> computeGoodSuffix(pattern)]

\* The counters of the Time Complexity panel.
totalComparisons ==
    Cardinality({k \in 1..Len(steps) : "lastComparison" \in DOMAIN steps[k]})

worstCaseComparisons ==
    IF algorithm = "KMP" THEN Len(text) + Len(pattern) ELSE Len(text) * Len(pattern)

\* The clickable cells of the comparison grid, one for each text row and
\* pattern column, rendered only while a grid is stored.
GridCells ==
    IF Len(compareGrid) # 0
    THEN (0..(Len(text) - 1)) \X (0..(Len(pattern) - 1))
    ELSE {}

Next ==
    \/ \E v \in Edits(text, MaxTextLen) : setText(v)
    \/ \E v \in Edits(pattern, MaxPatLen) : setPattern(v)
    \/ \E a \in {"KMP", "BM"} : setAlgorithm(a)
    \/ ResetOnInputChange
    \/ onRun
    \/ onNext
    \/ onPrev
    \/ onReset
    \/ \E c \in GridCells : jumpToComparison(c[1], c[2])

Spec == Init /\ [][Next]_vars

\* The generators alone: inputs are typed and Run is pressed, nothing is navigated.
EngineNext ==
    \/ \E v \in Edits(text, MaxEngineTextLen) : setText(v)
    \/ \E v \in Edits(pattern, MaxEnginePatLen) : setPattern(v)
    \/ \E a \in {"KMP", "BM"} : setAlgorithm(a)
    \/ ResetOnInputChange
    \/ onRun

SpecEngine == Init /\ [][EngineNext]_vars

\* The preprocessing tables alone: a pattern is typed and its table rendered.
TablesNext ==
    \/ \E v \in Edits(pattern, MaxTablePatLen) : setPattern(v)
    \/ \E a \in {"KMP", "BM"} : setAlgorithm(a)
    \/ ResetOnInputChange

SpecTables == Init /\ [][TablesNext]_vars

(* ------------------------------- properties --------------------------- *)

\* The trace stored is the one Run generated from the inputs now held: the
\* component is mounted and the reset that follows an input change is not
\* pending.
TraceIsCurrent == generated /\ mounted /\ ~effectPending

\* The pattern occurs in the text at offset s.
OccursAt(text_, pattern_, s) ==
    \A k \in 1..Len(pattern_) : text_[s + k] = pattern_[k]

\* The start offsets a brute-force scan of 0..n-m reports.
Occurrences(text_, pattern_) ==
    {s \in 0..(Len(text_) - Len(pattern_)) : OccursAt(text_, pattern_, s)}

\* ms is the increasing list of the elements of S.
IsIncreasingListOf(ms, S) ==
    /\ Len(ms) = Cardinality(S)
    /\ \A k \in 1..Len(ms) : ms[k] \in S
    /\ \A k \in 1..(Len(ms) - 1) : ms[k] < ms[k + 1]

OtherAlgorithm == IF algorithm = "KMP" THEN "BM" ELSE "KMP"

StepsOfKind(kind) == {k \in 1..Len(steps) : steps[k].kind = kind}

\* C1: for a pattern with 1 <= m <= n, the match list Run stores, under KMP
\* and under BM, is the increasing list of all offsets at which the pattern
\* occurs in the text (overlapping occurrences included), and it equals the
\* match list the other generator returns for the same inputs.
C1_MatchListsAreBruteForce ==
    (TraceIsCurrent /\ Len(pattern) >= 1 /\ Len(pattern) <= Len(text)) =>
        /\ IsIncreasingListOf(matches, Occurrences(text, pattern))
        /\ matches = Generate(OtherAlgorithm, text, pattern).matches

\* A BM run that found two overlapping occurrences.
C1_Witness ==
    /\ TraceIsCurrent
    /\ algorithm = "BM"
    /\ Len(matches) >= 2
    /\ matches[2] - matches[1] < Len(pattern)

\* C2: when the pattern is longer than the text, the trace Run stores is the
\* Complete step alone and the match list is empty, under KMP and under BM.
C2_LongPatternOnlyComplete ==
    (TraceIsCurrent /\ Len(pattern) > Len(text)) =>
        /\ Len(steps) = 1
        /\ steps[1].kind = "Complete"
        /\ matches = <<>>

\* C3: Run under BM returns, and in the trace it stores every ShiftDecision
\* step, after a full match or after a mismatch, records a shift >= 1 and a
\* window start greater than that of the step before it, so the window starts
\* of successive Align steps strictly increase.
C3_BMShiftAtLeastOne ==
    /\ ~hung
    /\ (TraceIsCurrent /\ algorithm = "BM") =>
          /\ \A k \in StepsOfKind("ShiftDecision") :
                /\ steps[k].shift >= 1
                /\ k > 1
                /\ steps[k].windowStart = steps[k - 1].windowStart + steps[k].shift
          /\ \A k, l \in StepsOfKind("Align") :
                k < l => steps[k].windowStart < steps[l].windowStart

\* A BM run whose trace has a ShiftDecision of each branch.
C3_Witness ==
    /\ TraceIsCurrent
    /\ algorithm = "BM"
    /\ \E k, l \in StepsOfKind("ShiftDecision") :
          steps[k].branch = "match" /\ steps[l].branch = "mismatch"

\* C4: the number of Compare steps of a KMP trace is at most n + m, the
\* worst case the Time Complexity panel displays for KMP.
C4_KMPComparisonsWithinWorstCase ==
    (TraceIsCurrent /\ algorithm = "KMP") => totalComparisons <= worstCaseComparisons

\* C5: the trace Run stores, under KMP and under BM, ends with the Complete
\* step and holds no other Complete step.
C5_CompleteIsLastAndOnce ==
    TraceIsCurrent =>
        /\ Len(steps) >= 1
        /\ StepsOfKind("Complete") = {Len(steps)}

\* A BM trace with steps before its Complete step.
C5_Witness ==
    /\ TraceIsCurrent
    /\ algorithm = "BM"
    /\ Len(steps) > 1
    /\ steps[Len(steps)].kind = "Complete"

\* The 1-based indices of the steps that carry a comparison.
CompareSteps == {k \in 1..Len(steps) : "lastComparison" \in DOMAIN steps[k]}

\* C6: for the comparison (t, p) of the step at index k of the stored trace,
\* jumpToComparison(t, p) finds a step and sets pos to an index <= k whose
\* step carries the same textIndex, patternIndex and match flag; and every
\* jump that found a step has put pos on a step carrying a comparison.
C6_JumpRoundTrip ==
    /\ \A k \in CompareSteps :
          LET c == steps[k].lastComparison
              out == JumpOutcome(steps, pos, c.textIndex, c.patternIndex)
          IN /\ out.exit = "jump-found"
             /\ out.pos >= 0
             /\ out.pos <= k - 1
             /\ out.pos + 1 \in CompareSteps
             /\ steps[out.pos + 1].lastComparison = c
    /\ lastEvent = "jump-found" =>
          /\ pos + 1 \in CompareSteps
          /\ \A k \in CompareSteps :
                (/\ steps[k].lastComparison.textIndex
                       = steps[pos + 1].lastComparison.textIndex
                 /\ steps[k].lastComparison.patternIndex
                       = steps[pos + 1].lastComparison.patternIndex)
                => (pos <= k - 1 /\ steps[k].lastComparison = steps[pos + 1].lastComparison)

\* A jump that landed on a comparison away from the first step.
C6_Witness ==
    /\ lastEvent = "jump-found"
    /\ pos > 0
    /\ pos + 1 \in CompareSteps

\* No step of the stored trace (none at all when there is no trace) compared
\* text index t with pattern index p.
NeverCompared(t, p) ==
    \A k \in 1..Len(steps) : ~StepCompares(steps[k], t, p)

\* C7: jumpToComparison(t, p) for a coordinate no step compared, or with no
\* trace stored, takes a not-found exit; and a jump that took a not-found exit
\* has not blocked the page and has left pos, steps and matches as they were.
C7_JumpMissChangesNothing ==
    /\ [](\A t \in 0..(Len(text) - 1) : \A p \in 0..(Len(pattern) - 1) :
            NeverCompared(t, p) =>
                LET out == JumpOutcome(steps, pos, t, p)
                IN /\ out.exit \in {"jump-absent", "jump-nosteps"}
                   /\ out.pos = pos)
    /\ [][lastEvent' \in {"jump-absent", "jump-nosteps"} =>
            (UNCHANGED <<pos, steps, matches>> /\ ~hung')]_vars

\* A click, in the middle of a BM trace, on a cell BM never compared.
C7_Witness ==
    /\ lastEvent = "jump-absent"
    /\ algorithm = "BM"
    /\ pos > 0

\* b is the length of a proper border of q: a prefix of q, shorter than q,
\* that is also a suffix of q.
IsBorderLen(q, b) ==
    /\ b < Len(q)
    /\ \A k \in 1..b : q[k] = q[Len(q) - b + k]

\* The length of the longest proper border of a non-empty q.
LongestBorder(q) ==
    CHOOSE b \in 0..(Len(q) - 1) :
        /\ IsBorderLen(q, b)
        /\ \A c \in 0..(Len(q) - 1) : IsBorderLen(q, c) => c <= b

\* C8: for a pattern of length m >= 1, the table computeLPS returns has m
\* entries and lps[i] is the length of the longest proper prefix of
\* pattern[0..i] that is also its suffix; so lps[0] = 0 and lps[i] <= i.
C8_LPSIsLongestBorder ==
    (algorithm = "KMP" /\ Len(pattern) >= 1) =>
        LET lps == KMPTable.lps
        IN /\ DOMAIN lps = 0..(Len(pattern) - 1)
           /\ lps[0] = 0
           /\ \A i \in DOMAIN lps :
                 /\ lps[i] = LongestBorder(SubSeq(pattern, 1, i + 1))
                 /\ lps[i] <= i

\* A table with an entry reached by falling back to a shorter, non-empty border.
C8_Witness ==
    /\ algorithm = "KMP"
    /\ \E i \in 1..(Len(pattern) - 1) :
          /\ KMPTable.lps[i] >= 2
          /\ KMPTable.lps[i] <= KMPTable.lps[i - 1]

\* C9: every Compare step of a stored trace has a window of m characters that
\* holds the compared text index; under KMP its window starts at
\* textIndex - patternIndex.
C9_CompareWindow ==
    TraceIsCurrent =>
        \A k \in CompareSteps :
            LET st == steps[k]
                c == st.lastComparison
            IN /\ st.windowEnd - st.windowStart + 1 = Len(pattern)
               /\ st.windowStart <= c.textIndex
               /\ c.textIndex <= st.windowEnd
               /\ algorithm = "KMP" => st.windowStart = c.textIndex - c.patternIndex

\* A KMP trace with a mismatch away from the first pattern character.
C9_Witness ==
    /\ TraceIsCurrent
    /\ algorithm = "KMP"
    /\ \E k \in CompareSteps :
          /\ steps[k].lastComparison.patternIndex > 0
          /\ ~steps[k].lastComparison.match

\* Shifting p right by d keeps the matched suffix p[k..m-1] aligned with equal
\* characters, and brings a different character (or none) under index k-1.
IsStrongShift(p, k, d) ==
    /\ \A t \in k..(Len(p) - 1) : t - d >= 0 => CharAt(p, t - d) = CharAt(p, t)
    /\ k - 1 - d < 0 \/ CharAt(p, k - 1 - d) # CharAt(p, k - 1)

\* The classical strong good-suffix shift for a mismatch at pattern index k-1.
StrongGoodSuffixShift(p, k) ==
    CHOOSE d \in 1..Len(p) :
        /\ IsStrongShift(p, k, d)
        /\ \A e \in 1..Len(p) : IsStrongShift(p, k, e) => d <= e

\* C10: for a pattern of length m >= 1, computeGoodSuffix returns m+1 entries,
\* shift[0] is m minus the length of the longest proper border of the
\* pattern, and shift[k], k in 1..m, is the strong good-suffix shift for a
\* mismatch at pattern index k-1.
C10_GoodSuffixIsStrongShift ==
    (algorithm = "BM" /\ Len(pattern) >= 1) =>
        LET good == BMTable.good
            m == Len(pattern)
        IN /\ DOMAIN good = 0..m
           /\ good[0] = m - LongestBorder(pattern)
           /\ \A k \in 1..m : good[k] = StrongGoodSuffixShift(pattern, k)

\* A table with a shift set in the first pass (a re-occurrence of the suffix)
\* and a shift set in the second pass (a border), for a pattern with a border.
C10_Witness ==
    /\ algorithm = "BM"
    /\ Len(pattern) >= 4
    /\ LongestBorder(pattern) >= 1
    /\ \E k, l \in 1..Len(pattern) :
          /\ BMTable.good[k] < k
          /\ BMTable.good[l] >= l /\ BMTable.good[l] < Len(pattern)

(* ---------------------------------- C11 -------------------------------- *)

\* C11: for every text and every pattern of length m >= 1, every read of text,
\* pattern, lps, borderPos and the good-suffix table made while the tables are
\* built and while the trace of the selected algorithm is generated is inside
\* the array read, so no read gives undefined and no nullish default is taken.
C11_ReadsInBounds ==
    Len(pattern) >= 1 =>
        /\ ~KMPTable.oob
        /\ ~GSFirstPassResult(pattern).oob
        /\ ~Generate(algorithm, text, pattern).oob

\* A KMP run that read lps on both paths (after a mismatch and after a full
\* match), and a Boyer-Moore run that read the good-suffix table on both.
C11_Witness ==
    /\ TraceIsCurrent
    /\ \/ /\ algorithm = "KMP"
          /\ StepsOfKind("Fallback") # {}
          /\ StepsOfKind("MatchFound") # {}
       \/ /\ algorithm = "BM"
          /\ StepsOfKind("MatchFound") # {}
          /\ \E k \in StepsOfKind("ShiftDecision") : steps[k].branch = "mismatch"

(* ---------------------------------- C12 -------------------------------- *)

\* The number of Align steps of a trace.
AlignCount(steps_) == Cardinality({k \in 1..Len(steps_) : steps_[k].kind = "Align"})

\* C12: for every text of length n and every pattern of length m >= 1,
\* buildBMSteps returns, and its trace holds at most n Align steps (one per
\* turn of the outer loop) before the Complete step; a Boyer-Moore Run never
\* leaves the App waiting for the generator.
C12_BMTerminatesWithinNAligns ==
    (algorithm = "BM" /\ Len(pattern) >= 1) =>
        LET r == buildBMSteps(text, pattern)
        IN /\ r.returned
           /\ AlignCount(r.steps) <= Len(text)
           /\ r.steps[Len(r.steps)].kind = "Complete"
           /\ ~hung
           /\ TraceIsCurrent => steps = r.steps

\* A Boyer-Moore run whose outer loop took exactly n turns, n >= 2.
C12_Witness ==
    /\ TraceIsCurrent
    /\ algorithm = "BM"
    /\ Len(text) >= 2
    /\ AlignCount(steps) = Len(text)

(* ---------------------------------- C13 -------------------------------- *)

\* The 0-based indices at which character c occurs in p.
IndicesOf(p, c) == {i \in 0..(Len(p) - 1) : CharAt(p, i) = c}

\* C13: the bad-character table of the pattern has an entry exactly for the
\* characters that occur in the pattern, and the entry of a character is the
\* greatest index at which it occurs.
C13_BadCharIsRightmostIndex ==
    LET bad == BMTable.bad
    IN /\ \A c \in Alphabet \cup {"C", "D"} :
             c \in DOMAIN bad <=> IndicesOf(pattern, c) # {}
       /\ DOMAIN bad \subseteq Alphabet \cup {"C", "D"}
       /\ \A c \in DOMAIN bad :
             /\ bad[c] \in IndicesOf(pattern, c)
             /\ \A i \in IndicesOf(pattern, c) : i <= bad[c]

\* A pattern in which one character occurs at least twice and not last, so
\* that its entry was overwritten, while a character of the default text
\* does not occur in it and has no entry.
C13_Witness ==
    /\ \E c \in DOMAIN BMTable.bad :
          /\ Cardinality(IndicesOf(pattern, c)) >= 2
          /\ BMTable.bad[c] < Len(pattern) - 1
    /\ \E c \in Alphabet \cup {"C", "D"} : c \notin DOMAIN BMTable.bad

(* ---------------------------------- C14 -------------------------------- *)

\* The position in steps_ of the first Compare step after position k, or 0
\* when no Compare step follows.
NextCompare(steps_, k) ==
    LET later == {l \in (k + 1)..Len(steps_) : steps_[l].kind = "Compare"}
    IN IF later = {} THEN 0 ELSE CHOOSE l \in later : \A o \in later : l <= o

\* C14: in the stored KMP trace, a mismatching Compare at text index i and
\* pattern index j # 0 is immediately followed by a Fallback step, and the
\* next Compare step is at (i, lps[j - 1]); a mismatching Compare at (i, 0)
\* is immediately followed by an Increment step, and the next Compare step,
\* when there is one, is at (i + 1, 0).
C14_KMPMismatchSuccessor ==
    (TraceIsCurrent /\ algorithm = "KMP") =>
        \A k \in StepsOfKind("Compare") :
            LET c == steps[k].lastComparison
                nc == NextCompare(steps, k)
            IN ~c.match =>
                 /\ k + 1 <= Len(steps)
                 /\ IF c.patternIndex # 0
                    THEN /\ steps[k + 1].kind = "Fallback"
                         /\ nc = k + 2
                         /\ steps[nc].lastComparison.textIndex = c.textIndex
                         /\ steps[nc].lastComparison.patternIndex =
                                KMPTable.lps[c.patternIndex - 1]
                    ELSE /\ steps[k + 1].kind = "Increment"
                         /\ nc # 0 =>
                              /\ nc = k + 2
                              /\ steps[nc].lastComparison.textIndex = c.textIndex + 1
                              /\ steps[nc].lastComparison.patternIndex = 0

\* A KMP trace with a mismatch that falls back to a non-zero pattern index,
\* a mismatch at pattern index 0 followed by another Compare, and a mismatch
\* at pattern index 0 on the last text character.
C14_Witness ==
    /\ TraceIsCurrent
    /\ algorithm = "KMP"
    /\ \E k \in StepsOfKind("Compare") :
          /\ ~steps[k].lastComparison.match
          /\ steps[k].lastComparison.patternIndex # 0
          /\ KMPTable.lps[steps[k].lastComparison.patternIndex - 1] # 0
    /\ \E k \in StepsOfKind("Compare") :
          /\ ~steps[k].lastComparison.match
          /\ steps[k].lastComparison.patternIndex = 0
          /\ NextCompare(steps, k) # 0
    /\ \E k \in StepsOfKind("Compare") :
          /\ ~steps[k].lastComparison.match
          /\ steps[k].lastComparison.patternIndex = 0
          /\ NextCompare(steps, k) = 0

(* ---------------------------------- C15 -------------------------------- *)

\* C15: in the stored KMP trace the text indices of the Compare steps, in
\* trace order, never decrease, and a text index whose Compare step matched
\* is not the text index of any later Compare step.
C15_KMPTextIndexMonotone ==
    (TraceIsCurrent /\ algorithm = "KMP") =>
        \A k, l \in StepsOfKind("Compare") :
            k < l =>
              /\ steps[k].lastComparison.textIndex <= steps[l].lastComparison.textIndex
              /\ steps[k].lastComparison.match =>
                    steps[k].lastComparison.textIndex < steps[l].lastComparison.textIndex

\* A KMP trace in which a text index is compared twice (first a mismatch,
\* then, after the fallback, a match) and later text indices are compared.
C15_Witness ==
    /\ TraceIsCurrent
    /\ algorithm = "KMP"
    /\ \E k, l, o \in StepsOfKind("Compare") :
          /\ k < l /\ l < o
          /\ steps[k].lastComparison.textIndex = steps[l].lastComparison.textIndex
          /\ ~steps[k].lastComparison.match
          /\ steps[l].lastComparison.match
          /\ steps[l].lastComparison.textIndex < steps[o].lastComparison.textIndex

(* ---------------------------------- C16 -------------------------------- *)

\* The number of Compare steps that directly follow position k of steps_.
ScanLength(steps_, k) ==
    Cardinality({q \in 1..(Len(steps_) - k) :
                    \A r \in 1..q : steps_[k + r].kind = "Compare"})

\* C16: in the stored Boyer-Moore trace every Align step has a window start
\* s with 0 <= s <= n - m and is directly followed by Compare steps at
\* pattern indices m-1, m-2, ... (each at text index s + pattern index), all
\* matching except possibly the last; a mismatching last Compare is directly
\* followed by a ShiftDecision, and otherwise the scan reached pattern index
\* 0 and is followed by a MatchFound and then a ShiftDecision.  The window
\* starts of the Align steps strictly increase along the trace.
C16_BMScanShape ==
    (TraceIsCurrent /\ algorithm = "BM") =>
        LET n == Len(text)
            m == Len(pattern)
        IN /\ \A k \in StepsOfKind("Align") :
                 LET s == steps[k].windowStart
                     c == ScanLength(steps, k)
                 IN /\ 0 <= s /\ s <= n - m
                    /\ c >= 1
                    /\ \A q \in 1..c :
                          /\ steps[k + q].lastComparison.patternIndex = m - q
                          /\ steps[k + q].lastComparison.textIndex = s + (m - q)
                          /\ q < c => steps[k + q].lastComparison.match
                    /\ k + c + 1 <= Len(steps)
                    /\ IF steps[k + c].lastComparison.match
                       THEN /\ c = m
                            /\ steps[k + c + 1].kind = "MatchFound"
                            /\ k + c + 2 <= Len(steps)
                            /\ steps[k + c + 2].kind = "ShiftDecision"
                       ELSE steps[k + c + 1].kind = "ShiftDecision"
           /\ \A k, l \in StepsOfKind("Align") :
                 k < l => steps[k].windowStart < steps[l].windowStart

\* A Boyer-Moore trace of a pattern of two or more characters with a scan
\* that ends in a mismatch after at least one match, a scan that reaches
\* pattern index 0, and three or more alignments.
C16_Witness ==
    /\ TraceIsCurrent
    /\ algorithm = "BM"
    /\ Len(pattern) >= 2
    /\ Cardinality(StepsOfKind("Align")) >= 3
    /\ StepsOfKind("MatchFound") # {}
    /\ \E k \in StepsOfKind("Align") :
          /\ ScanLength(steps, k) >= 2
          /\ ~steps[k + ScanLength(steps, k)].lastComparison.match

(* ---------------------------------- C17 -------------------------------- *)

\* The number of MatchFound steps of steps_ at or before position k.
MatchFoundRank(steps_, k) ==
    Cardinality({l \in 1..k : steps_[l].kind = "MatchFound"})

\* C17: under either algorithm the stored match list is strictly increasing,
\* the stored trace has as many MatchFound steps as the list has entries, and
\* the i-th MatchFound step of the trace has the i-th entry of the list as
\* its windowStart; so no MatchFound step is without its entry.
C17_MatchFoundStepsAreMatchList ==
    TraceIsCurrent =>
        /\ \A a, b \in 1..Len(matches) : a < b => matches[a] < matches[b]
        /\ Cardinality(StepsOfKind("MatchFound")) = Len(matches)
        /\ \A k \in StepsOfKind("MatchFound") :
              /\ MatchFoundRank(steps, k) \in 1..Len(matches)
              /\ steps[k].windowStart = matches[MatchFoundRank(steps, k)]

\* A trace of a pattern of two or more characters that occurs three times or
\* more in the text, two of the occurrences overlapping.
C17_Witness ==
    /\ TraceIsCurrent
    /\ Len(pattern) >= 2
    /\ Len(matches) >= 3
    /\ \E a \in 1..(Len(matches) - 1) : matches[a + 1] < matches[a] + Len(pattern)

(* ---------------------------------- C18 -------------------------------- *)

\* C18: every step of the stored trace other than the Complete step records
\* a windowStart, so that when the selected step is not the Complete step the
\* offset the pattern row is drawn at is the step's own windowStart and not
\* the default taken for a missing one.
C18_WindowStartOnAllButComplete ==
    TraceIsCurrent =>
        /\ \A k \in 1..Len(steps) :
              steps[k].kind # "Complete" => "windowStart" \in DOMAIN steps[k]
        /\ (hasCurrent /\ current.kind # "Complete") =>
              /\ "windowStart" \in DOMAIN current
              /\ windowStart = current.windowStart

(* ---------------------------------- C19 -------------------------------- *)

\* C19: in every state reached by edits, Run, Next, Prev, Reset and jumps,
\* when generated is true the stored steps, matches and compare grid are
\* those the generator of the selected algorithm gives for the current text
\* and pattern; and every step that changes text, pattern or algorithm
\* empties steps, matches and compareGrid, sets pos to 0 and generated to
\* false, generated becoming true again only by a Run.
C19_StoredTraceIsOfCurrentInputs ==
    /\ [](generated =>
            LET r == Generate(algorithm, text, pattern)
            IN /\ r.returned
               /\ steps = r.steps
               /\ matches = r.matches
               /\ compareGrid = CompareGrid(text, pattern))
    /\ [][((text' # text \/ pattern' # pattern \/ algorithm' # algorithm) =>
               (/\ steps' = <<>>
                /\ matches' = <<>>
                /\ compareGrid' = <<>>
                /\ pos' = 0
                /\ ~generated'))
           /\ ((~generated /\ generated') => lastEvent' = "run")]_vars

(* ---------------------------------- C20 -------------------------------- *)

\* C20: a Run while the pattern is empty returns before the compare grid is
\* built and before a generator is called: the step leaves steps, matches,
\* compareGrid, pos and generated (and the inputs) as they were, and no trace
\* is ever stored for an empty pattern.
C20_RunWithEmptyPatternChangesNothing ==
    /\ [](TraceIsCurrent => Len(pattern) >= 1)
    /\ [][(lastEvent' \in {"run", "run-rejected"} /\ Len(pattern) = 0) =>
             (/\ lastEvent' = "run-rejected"
              /\ ~hung'
              /\ UNCHANGED <<steps, matches, compareGrid, pos, generated,
                             text, pattern, algorithm, mounted, effectPending>>)]_vars

\* A rejected Run that found the position moved off its initial value.
C20_Witness ==
    /\ lastEvent = "run-rejected"
    /\ Len(pattern) = 0
    /\ pos # 0

(* ---------------------------------- C21 -------------------------------- *)

\* C21: in every state reached by edits, Run, Next, Prev, Reset and jumps,
\* Next and Prev pressed before any Run included, pos is not negative, and
\* when steps is not empty pos is at most the index of its last step.
C21_PosIsAStepIndex ==
    /\ pos >= 0
    /\ Len(steps) > 0 => pos <= Len(steps) - 1

(* ---------------------------------- C22 -------------------------------- *)

\* C22: in the stored trace of either algorithm no two steps carrying a
\* comparison have the same text index and the same pattern index, so that
\* jumpToComparison called with the comparison of the step at index k puts
\* pos exactly on k, and a jump that found a step stands on the only step
\* with the cell clicked.
C22_ComparisonsAreUnique ==
    /\ \A k, l \in CompareSteps :
          (/\ steps[k].lastComparison.textIndex = steps[l].lastComparison.textIndex
           /\ steps[k].lastComparison.patternIndex = steps[l].lastComparison.patternIndex)
          => k = l
    /\ \A k \in CompareSteps :
          LET c == steps[k].lastComparison
          IN /\ findIndex(steps, c.textIndex, c.patternIndex) = k - 1
             /\ JumpOutcome(steps, pos, c.textIndex, c.patternIndex) =
                    [exit |-> "jump-found", pos |-> k - 1]
    /\ lastEvent = "jump-found" =>
          /\ hasCurrent
          /\ "lastComparison" \in DOMAIN current
          /\ \A k \in CompareSteps :
                (/\ steps[k].lastComparison.textIndex = current.lastComparison.textIndex
                 /\ steps[k].lastComparison.patternIndex
                        = current.lastComparison.patternIndex)
                => k = pos + 1

\* A jump that landed on a comparison whose text index is also compared by
\* an earlier step (at another pattern index) and whose pattern index is
\* also compared by an earlier step (at another text index).
C22_Witness ==
    /\ lastEvent = "jump-found"
    /\ TraceIsCurrent
    /\ hasCurrent
    /\ "lastComparison" \in DOMAIN current
    /\ \E k \in CompareSteps :
          /\ k < pos + 1
          /\ steps[k].lastComparison.textIndex = current.lastComparison.textIndex
    /\ \E k \in CompareSteps :
          /\ k < pos + 1
          /\ steps[k].lastComparison.patternIndex = current.lastComparison.patternIndex

=============================================================================
